---- MODULE Spec2Model ----
(***************************************************************************)
(* A model of st_to_plcopenxml.py: the STConverter that extracts a         *)
(* function block from Structured Text and serializes it as PLCOpenXML.    *)
(*                                                                         *)
(* Text is modelled as a sequence of tokens.  A token is a string: a word  *)
(* (keyword, identifier, number), a punctuation mark, or the line break NL.*)
(* Two neighbouring words are separated by blanks; a punctuation mark may  *)
(* touch its neighbours.  Every string the program handles (a type         *)
(* expression, an initial value, a body) is the token sequence of that     *)
(* string, so "100;" is <<"100", ";">> and differs from "100".             *)
(* The regular expressions search characters, so a keyword is also found   *)
(* inside a longer token (VAR inside VAR_INPUT and END_VAR); the tables    *)
(* below state, for the tokens of the vocabulary, which keyword occurs     *)
(* where.                                                                  *)
(***************************************************************************)
EXTENDS Integers, Sequences, FiniteSets, TLC

\* Bounds of the model.
MaxDecls == 3
MaxMembers == 2
MaxCalls == 2
MaxBody == 3

NL == "\n"

\* ------------------------------------------------------------------
\* Sequence helpers

Sub(s, a, b) == IF a > b THEN <<>> ELSE SubSeq(s, a, b)

\* The first position at or after lo whose token is in T, or 0: where a
\* left-to-right search for one of these tokens matches.
RECURSIVE Find(_, _, _)
Find(s, lo, T) ==
  IF lo > Len(s) THEN 0 ELSE IF s[lo] \in T THEN lo ELSE Find(s, lo + 1, T)

\* The first token after position i that is not a line break (\s+ and \s* run
\* over line breaks), or Len(s) + 1.
RECURSIVE NextTok(_, _)
NextTok(s, i) ==
  IF i + 1 > Len(s) THEN Len(s) + 1
  ELSE IF s[i + 1] # "\n" THEN i + 1 ELSE NextTok(s, i + 1)

\* The first position at or after lo of a token of T whose next token is nxt
\* (r'METHOD\s+PUBLIC', r'PROPERTY\s+GET', ...), or 0.
RECURSIVE FindPair(_, _, _, _)
FindPair(s, lo, T, nxt) ==
  LET i == Find(s, lo, T)
  IN IF i = 0 THEN 0
     ELSE IF NextTok(s, i) <= Len(s) /\ s[NextTok(s, i)] = nxt THEN i
     ELSE FindPair(s, i + 1, T, nxt)

\* The first position at or after lo of token a with b right behind it, or 0.
RECURSIVE FindAdj(_, _, _, _)
FindAdj(s, lo, a, b) ==
  LET i == Find(s, lo, {a})
  IN IF i = 0 \/ i >= Len(s) THEN 0
     ELSE IF s[i + 1] = b THEN i ELSE FindAdj(s, i + 1, a, b)

RECURSIVE Concat(_)
Concat(ss) == IF ss = <<>> THEN <<>> ELSE Head(ss) \o Concat(Tail(ss))

\* str.strip(): the only blank token is NL.
RECURSIVE LStrip(_)
LStrip(s) == IF s # <<>> /\ Head(s) = "\n" THEN LStrip(Tail(s)) ELSE s

RECURSIVE RStrip(_)
RStrip(s) ==
  IF s # <<>> /\ s[Len(s)] = "\n" THEN RStrip(Sub(s, 1, Len(s) - 1)) ELSE s

Strip(s) == RStrip(LStrip(s))

\* str.rstrip(';')
RECURSIVE RStripSemi(_)
RStripSemi(s) ==
  IF s # <<>> /\ s[Len(s)] = ";" THEN RStripSemi(Sub(s, 1, Len(s) - 1)) ELSE s

\* str.split('\n'): the lines of s, an empty line after a trailing NL included.
RECURSIVE Split(_)
Split(s) ==
  LET k == Find(s, 1, {"\n"})
  IN IF k = 0 THEN <<s>>
     ELSE <<Sub(s, 1, k - 1)>> \o Split(Sub(s, k + 1, Len(s)))

\* ------------------------------------------------------------------
\* The vocabulary: which tokens are words (\w+), and where keywords occur.

PragmaTokens ==
  {"{attribute 'myAttr' := 'val'}", "{attribute 'other' := 'x'}"}

NonWords ==
  {NL, ":", ":=", ";", "[", "]", "..", "=", "&", "<", ">", "(*"}
    \cup PragmaTokens

IsWord(t) == t \notin NonWords

\* The tokens that end with a keyword: re 'VAR\s*\n', 'METHOD\s+PUBLIC', ...
EndsWithVAR == {"VAR", "END_VAR"}
EndsWithMETHOD == {"METHOD", "END_METHOD"}
EndsWithPROPERTY == {"PROPERTY", "END_PROPERTY"}
EndsWithFUNCTION_BLOCK == {"FUNCTION_BLOCK", "END_FUNCTION_BLOCK"}

\* The tokens that hold the characters VAR, and what follows them in the token.
HasVAR == {"VAR", "VAR_INPUT", "VAR_OUTPUT", "END_VAR"}
AfterVAR(t) ==
  IF t = "VAR_INPUT" THEN <<"_INPUT">>
  ELSE IF t = "VAR_OUTPUT" THEN <<"_OUTPUT">>
  ELSE <<>>

\* 'OF' in line.upper() and 'ARRAY' in type_str.upper(): substring tests.
HasOF == {"OF", "offs"}
HasARRAY == {"ARRAY"}

PragmaName(t) == IF t = "{attribute 'myAttr' := 'val'}" THEN "myAttr" ELSE "other"
PragmaValue(t) == IF t = "{attribute 'myAttr' := 'val'}" THEN "val" ELSE "x"

\* ------------------------------------------------------------------
\* escape_xhtml.  A string is a sequence of atoms; the special characters
\* & < > ; are atoms of their own, so a replacement acts on whole atoms, and
\* the text '&amp;' is the three atoms "&", "amp", ";".

Replace(s, old, new) ==
  Concat([i \in 1..Len(s) |-> IF s[i] = old THEN new ELSE <<s[i]>>])

\* A slip: & replaced last, so the & of &lt; and &gt; is escaped again.
escape_xhtml_AmpLast(s) ==
  IF s = <<>> THEN s
  ELSE LET s1 == Replace(s, "<", <<"&", "lt", ";">>)
           s2 == Replace(s1, ">", <<"&", "gt", ";">>)
           s3 == Replace(s2, "&", <<"&", "amp", ";">>)
       IN s3

escape_xhtml(s) ==
  IF s = <<>> THEN s
  ELSE LET s1 == Replace(s, "&", <<"&", "amp", ";">>)
           s2 == Replace(s1, "<", <<"&", "lt", ";">>)
           s3 == Replace(s2, ">", <<"&", "gt", ";">>)
       IN s3

\* ------------------------------------------------------------------
\* Variable, and the constants / variables dictionaries (insertion ordered).

None == <<>>

Variable(name, type_str, init_val, is_constant) ==
  [name |-> name, type_str |-> type_str, init_val |-> init_val,
   is_constant |-> is_constant]

parse_type(type_str) == Strip(type_str)

parse_variable_decl(name, type_str, init_val) ==
  Variable(name, parse_type(type_str), init_val, FALSE)

\* target_dict[var_name] = var
DictPut(d, var) ==
  LET S == {i \in 1..Len(d) : d[i].name = var.name}
  IN IF S = {} THEN Append(d, var) ELSE [d EXCEPT ![CHOOSE i \in S : TRUE] = var]

\* ------------------------------------------------------------------
\* _parse_var_block

\* re.match(r'(\w+)\s*:\s*(.+?)(?::=\s*(.+))?$', line) on a stripped line.
DeclMatches(line) == Len(line) >= 3 /\ IsWord(line[1]) /\ line[2] = ":"

\* Where the initial value's := is: behind a type, with text after it.
DeclAssign(line) ==
  LET k == Find(line, 4, {":="}) IN IF k < Len(line) THEN k ELSE 0

DeclType(line) ==
  LET k == DeclAssign(line)
  IN Strip(IF k = 0 THEN Sub(line, 3, Len(line)) ELSE Sub(line, 3, k - 1))

DeclInit(line) ==
  LET k == DeclAssign(line)
  IN IF k = 0 THEN None ELSE Strip(Sub(line, k + 1, Len(line)))

\* The while loop over j: every following line is appended to the type
\* expression until one holds OF; [type_str, i]: i moves to that line if any.
RECURSIVE ArrayCollect(_, _, _, _)
ArrayCollect(lines, i, j, type_str) ==
  IF j > Len(lines) THEN [type_str |-> type_str, i |-> i]
  ELSE LET t == type_str \o Strip(lines[j])
       IN IF Find(lines[j], 1, HasOF) # 0 THEN [type_str |-> t, i |-> j]
          ELSE ArrayCollect(lines, i, j + 1, t)

RECURSIVE VarBlockLoop(_, _, _)
VarBlockLoop(lines, i, dict) ==
  IF i > Len(lines) THEN dict
  ELSE LET line == Strip(lines[i])
       IN IF line = <<>> \/ line[1] = "(*" THEN VarBlockLoop(lines, i + 1, dict)
          ELSE IF ~DeclMatches(line) THEN VarBlockLoop(lines, i + 1, dict)
          ELSE LET t0 == DeclType(line)
                   r == IF Find(t0, 1, HasARRAY) # 0
                        THEN ArrayCollect(lines, i, i + 1, t0)
                        ELSE [type_str |-> t0, i |-> i]
                   var == parse_variable_decl(line[1], r.type_str, DeclInit(line))
               IN VarBlockLoop(lines, r.i + 1, DictPut(dict, var))

parse_var_block(block_text, target_dict) ==
  VarBlockLoop(Split(block_text), 1, target_dict)

\* ------------------------------------------------------------------
\* _parse_param_section

\* re.match(r'(\w+)\s*:\s*(.+)', line) after line.strip().rstrip(';')
ParamMatches(line) == Len(line) >= 3 /\ IsWord(line[1]) /\ line[2] = ":"

RECURSIVE ParamLoop(_, _, _)
ParamLoop(lines, i, target_list) ==
  IF i > Len(lines) THEN target_list
  ELSE LET line == RStripSemi(Strip(lines[i]))
       IN IF line = <<>> \/ line[1] = "(*" THEN ParamLoop(lines, i + 1, target_list)
          ELSE IF ParamMatches(line)
          THEN ParamLoop(lines, i + 1,
                 Append(target_list, <<line[1], Strip(Sub(line, 3, Len(line)))>>))
          ELSE ParamLoop(lines, i + 1, target_list)

parse_param_section(section_text, target_list) ==
  ParamLoop(Split(section_text), 1, target_list)

\* ------------------------------------------------------------------
\* The section searches shared by _parse_method and _parse_property

\* The first END_VAR after position i, or 0.
EndVarAfter(s, i) == Find(s, i + 1, {"END_VAR"})

\* re.search(kw + r'\s*(.*?)\s*END_VAR', s) for kw VAR_INPUT or VAR_OUTPUT:
\* [found, text].
KwSection(s, kw) ==
  LET i == Find(s, 1, {kw})
      e == EndVarAfter(s, i)
  IN IF i = 0 \/ e = 0 THEN [found |-> FALSE, text |-> <<>>]
     ELSE [found |-> TRUE, text |-> Strip(Sub(s, i + 1, e - 1))]

\* re.search(r'VAR\s*(.*?)\s*END_VAR', s): the characters VAR are found in
\* the first token that holds them, VAR_INPUT and VAR_OUTPUT included, and the
\* rest of that token starts the group.
LocalSection(s) ==
  LET i == Find(s, 1, HasVAR)
      e == EndVarAfter(s, i)
  IN IF i = 0 \/ e = 0 THEN [found |-> FALSE, text |-> <<>>]
     ELSE LET inner == Sub(s, i + 1, e - 1)
          IN [found |-> TRUE,
              text |-> IF AfterVAR(s[i]) = <<>> THEN Strip(inner)
                       ELSE RStrip(AfterVAR(s[i]) \o inner)]

\* re.sub(r'(VAR_INPUT|VAR_OUTPUT|VAR)\s*.*?END_VAR\s*', '', s)
RECURSIVE CleanVars(_)
CleanVars(s) ==
  LET i == Find(s, 1, HasVAR)
      e == EndVarAfter(s, i)
  IN IF i = 0 \/ e = 0 THEN s
     ELSE Sub(s, 1, i - 1)
          \o (IF s[i] = "END_VAR" THEN <<"END_">> ELSE <<>>)
          \o CleanVars(LStrip(Sub(s, e + 1, Len(s))))

\* ------------------------------------------------------------------
\* Method and _parse_method

Method(name, object_id) ==
  [name |-> name, input_vars |-> <<>>, output_vars |-> <<>>,
   local_vars |-> <<>>, body |-> <<>>, object_id |-> object_id]

MethodInputVars(block_text) ==
  LET m == KwSection(block_text, "VAR_INPUT")
  IN IF m.found THEN parse_param_section(m.text, <<>>) ELSE <<>>

MethodOutputVars(block_text) ==
  LET m == KwSection(block_text, "VAR_OUTPUT")
  IN IF m.found THEN parse_param_section(m.text, <<>>) ELSE <<>>

MethodLocalVars(block_text) ==
  LET m == LocalSection(block_text)
  IN IF m.found THEN parse_param_section(m.text, <<>>) ELSE <<>>

\* BEGIN ... END_METHOD, else what is left before END_METHOD once the
\* declaration blocks are removed.
MethodBody(block_text) ==
  LET b == Find(block_text, 1, {"BEGIN"})
      e == Find(block_text, b + 1, {"END_METHOD"})
      cleaned == CleanVars(block_text)
      ce == Find(cleaned, 1, {"END_METHOD"})
  IN IF b # 0 /\ e # 0 THEN Strip(Sub(block_text, b + 1, e - 1))
     ELSE IF ce = 0 THEN <<>>
     ELSE Strip(Sub(cleaned, 1, ce - 1))

parse_method(method, block_text) ==
  [method EXCEPT !.input_vars = MethodInputVars(block_text),
                 !.output_vars = MethodOutputVars(block_text),
                 !.local_vars = MethodLocalVars(block_text),
                 !.body = MethodBody(block_text)]

\* ------------------------------------------------------------------
\* Property and _parse_property

Property(name, type_str, object_id) ==
  [name |-> name, type_str |-> type_str, local_vars |-> <<>>, body |-> <<>>,
   attribute |-> None, object_id |-> object_id]

\* A slip: the two groups of the pragma pattern taken in the wrong order.
PropertyAttribute_Swapped(block_text) ==
  LET i == Find(block_text, 1, PragmaTokens)
  IN IF i = 0 THEN None
     ELSE <<PragmaValue(block_text[i]), PragmaName(block_text[i])>>

\* re.search of the attribute pragma: the first one in the block.
PropertyAttribute(block_text) ==
  LET i == Find(block_text, 1, PragmaTokens)
  IN IF i = 0 THEN None
     ELSE <<PragmaName(block_text[i]), PragmaValue(block_text[i])>>

\* re.search(r'PROPERTY\s+GET\s*(.*?)(?=END_PROPERTY|$)', block_text): the
\* block holds no END_PROPERTY, and $ also matches before a final line break.
GetBlock(block_text) ==
  LET i == FindPair(block_text, 1, EndsWithPROPERTY, "GET")
      rest == LStrip(Sub(block_text, NextTok(block_text, i) + 1, Len(block_text)))
  IN IF i = 0 THEN [found |-> FALSE, text |-> <<>>]
     ELSE [found |-> TRUE,
           text |-> IF rest # <<>> /\ rest[Len(rest)] = NL
                    THEN Sub(rest, 1, Len(rest) - 1) ELSE rest]

PropertyBody(get_block) ==
  LET b == Find(get_block, 1, {"BEGIN"})
  IN IF b # 0 THEN Strip(Sub(get_block, b + 1, Len(get_block)))
     ELSE Strip(CleanVars(get_block))

parse_property(prop, block_text) ==
  LET g == GetBlock(block_text)
      l == LocalSection(g.text)
  IN [prop EXCEPT
        !.attribute = PropertyAttribute(block_text),
        !.local_vars = IF g.found /\ l.found
                       THEN parse_param_section(l.text, <<>>) ELSE <<>>,
        !.body = IF g.found THEN PropertyBody(g.text) ELSE <<>>]

\* ------------------------------------------------------------------
\* parse_st: the searches over the whole text

\* Where r'FUNCTION_BLOCK\s+\w+' matches at or after lo, or 0.
RECURSIVE FindFb(_, _)
FindFb(text, lo) ==
  LET i == Find(text, lo, EndsWithFUNCTION_BLOCK)
  IN IF i = 0 THEN 0
     ELSE IF NextTok(text, i) <= Len(text) /\ IsWord(text[NextTok(text, i)]) THEN i
     ELSE FindFb(text, i + 1)

\* re.search(r'FUNCTION_BLOCK\s+(\w+)', text): [found, name]
FbNameMatch(text) ==
  LET i == FindFb(text, 1)
  IN IF i = 0 THEN [found |-> FALSE, name |-> ""]
     ELSE [found |-> TRUE, name |-> text[NextTok(text, i)]]

\* The tail r'\s*\n(.*?)\nEND_VAR' of the two block patterns, after the token
\* at position c: \s* runs to the last line break before the next token, and
\* the group ends at the first line break that END_VAR follows.
BlockAfter(s, c) ==
  LET r == NextTok(s, c) - 1
      q == FindAdj(s, r + 1, NL, "END_VAR")
  IN IF r >= c + 1 /\ q # 0 THEN [found |-> TRUE, text |-> Sub(s, r + 1, q - 1)]
     ELSE IF r >= c + 2 /\ r + 1 <= Len(s) /\ s[r + 1] = "END_VAR"
     THEN [found |-> TRUE, text |-> <<>>]
     ELSE [found |-> FALSE, text |-> <<>>]

\* re.search(r'VAR\s+CONSTANT\s*\n(.*?)\nEND_VAR', text, MULTILINE | DOTALL)
RECURSIVE ConstMatchFrom(_, _)
ConstMatchFrom(text, lo) ==
  LET i == FindPair(text, lo, EndsWithVAR, "CONSTANT")
  IN IF i = 0 THEN [found |-> FALSE, text |-> <<>>]
     ELSE IF BlockAfter(text, NextTok(text, i)).found
     THEN BlockAfter(text, NextTok(text, i))
     ELSE ConstMatchFrom(text, i + 1)

ConstMatch(text) == ConstMatchFrom(text, 1)

\* re.search(r'FUNCTION_BLOCK\s+\w+(.*?)METHOD\s+PUBLIC', text, DOTALL):
\* [found, text], the text between the name and the first public method.
FbSectionMatch(text) ==
  LET i == FindFb(text, 1)
      n == NextTok(text, i)
      m == FindPair(text, n + 1, EndsWithMETHOD, "PUBLIC")
  IN IF i = 0 \/ m = 0 THEN [found |-> FALSE, text |-> <<>>]
     ELSE [found |-> TRUE,
           text |-> Sub(text, n + 1, m - 1)
                    \o (IF text[m] = "END_METHOD" THEN <<"END_">> ELSE <<>>)]

\* re.search(r'VAR\s*\n(.*?)\nEND_VAR', fb_section, MULTILINE | DOTALL)
RECURSIVE VarMatchFrom(_, _)
VarMatchFrom(fb_section, lo) ==
  LET i == Find(fb_section, lo, EndsWithVAR)
  IN IF i = 0 THEN [found |-> FALSE, text |-> <<>>]
     ELSE IF BlockAfter(fb_section, i).found THEN BlockAfter(fb_section, i)
     ELSE VarMatchFrom(fb_section, i + 1)

VarMatch(fb_section) == VarMatchFrom(fb_section, 1)

\* Where the lookahead (?=METHOD\s+PUBLIC|PROPERTY\s+PUBLIC|END_FUNCTION_BLOCK)
\* first holds at or after lo, or 0.
RECURSIVE FindMethodEnd(_, _)
FindMethodEnd(text, lo) ==
  LET i == Find(text, lo, EndsWithMETHOD \cup EndsWithPROPERTY
                            \cup {"END_FUNCTION_BLOCK"})
  IN IF i = 0 THEN 0
     ELSE IF text[i] = "END_FUNCTION_BLOCK" THEN i
     ELSE IF NextTok(text, i) <= Len(text) /\ text[NextTok(text, i)] = "PUBLIC"
     THEN i
     ELSE FindMethodEnd(text, i + 1)

\* One match of the method pattern at or after pos: METHOD PUBLIC name, then
\* the block up to the lookahead.  [found, name, block, end]
RECURSIVE MethodMatch(_, _)
MethodMatch(text, pos) ==
  LET i == FindPair(text, pos, EndsWithMETHOD, "PUBLIC")
      n == NextTok(text, NextTok(text, i))
      e == FindMethodEnd(text, n + 1)
  IN IF i = 0 THEN [found |-> FALSE, name |-> "", block |-> <<>>, end |-> 0]
     ELSE IF n <= Len(text) /\ IsWord(text[n]) /\ e # 0
     THEN [found |-> TRUE, name |-> text[n],
           block |-> Sub(text, n + 1, e - 1), end |-> e]
     ELSE MethodMatch(text, i + 1)

\* for method_match in re.finditer(...): the matches, left to right, each
\* search resuming where the last match ended.
RECURSIVE MethodMatches(_, _)
MethodMatches(text, pos) ==
  LET m == MethodMatch(text, pos)
  IN IF ~m.found THEN <<>> ELSE <<m>> \o MethodMatches(text, m.end)

\* One match of r'PROPERTY\s+PUBLIC\s+(\w+)\s*:\s*(\w+)(.*?)END_PROPERTY'.
RECURSIVE PropertyMatch(_, _)
PropertyMatch(text, pos) ==
  LET i == FindPair(text, pos, EndsWithPROPERTY, "PUBLIC")
      n == NextTok(text, NextTok(text, i))
      c == NextTok(text, n)
      t == NextTok(text, c)
      e == Find(text, t + 1, {"END_PROPERTY"})
  IN IF i = 0
     THEN [found |-> FALSE, name |-> "", type |-> "", block |-> <<>>, end |-> 0]
     ELSE IF /\ t <= Len(text)
             /\ IsWord(text[n])
             /\ text[c] = ":"
             /\ IsWord(text[t])
             /\ e # 0
     THEN [found |-> TRUE, name |-> text[n], type |-> text[t],
           block |-> Sub(text, t + 1, e - 1), end |-> e + 1]
     ELSE PropertyMatch(text, i + 1)

RECURSIVE PropertyMatches(_, _)
PropertyMatches(text, pos) ==
  LET m == PropertyMatch(text, pos)
  IN IF ~m.found THEN <<>> ELSE <<m>> \o PropertyMatches(text, m.end)

\* ------------------------------------------------------------------
\* parse_st, field by field.  uuid0 is the number of identifiers uuid_str
\* has handed out so far: the next ones are uuid0 + 1, uuid0 + 2, ...

ParsedFbName(old, text) ==
  IF FbNameMatch(text).found THEN FbNameMatch(text).name ELSE old

ParsedConstants(old, text) ==
  LET m == ConstMatch(text)
  IN IF m.found THEN parse_var_block(m.text, old) ELSE old

ParsedVariables(old, text) ==
  LET fb == FbSectionMatch(text)
      m == VarMatch(fb.text)
  IN IF fb.found /\ m.found THEN parse_var_block(m.text, old) ELSE old

NewMethods(text, uuid0) ==
  LET ms == MethodMatches(text, 1)
  IN [k \in 1..Len(ms) |-> parse_method(Method(ms[k].name, uuid0 + k), ms[k].block)]

ParsedMethods(old, text, uuid0) == old \o NewMethods(text, uuid0)

NewProperties(text, uuid0) ==
  LET ps == PropertyMatches(text, 1)
  IN [k \in 1..Len(ps) |->
        parse_property(Property(ps[k].name, <<ps[k].type>>, uuid0 + k), ps[k].block)]

ParsedProperties(old, text, uuid0) == old \o NewProperties(text, uuid0)

\* ------------------------------------------------------------------
\* type_to_xml_element.  An element is [tag, dimension, name]: for an array
\* the text written inside <dimension ... /> and the base type's name, for a
\* simple type the text written as the element's name.

\* re.match(r'ARRAY\s*\[(.*?)\]\s*OF\s*(\w+)', type_str, IGNORECASE)
ArrayMatch(type_str) ==
  LET open == NextTok(type_str, 1)
      close == Find(type_str, open + 1, {"]"})
      of == NextTok(type_str, close)
      base == NextTok(type_str, of)
  IN IF /\ type_str # <<>>
        /\ type_str[1] = "ARRAY"
        /\ open <= Len(type_str)
        /\ type_str[open] = "["
        /\ close # 0
        /\ base <= Len(type_str)
        /\ type_str[of] = "OF"
        /\ IsWord(type_str[base])
     THEN [found |-> TRUE, dimension |-> Strip(Sub(type_str, open + 1, close - 1)),
           base_type |-> type_str[base]]
     ELSE [found |-> FALSE, dimension |-> <<>>, base_type |-> ""]

type_to_xml_element(type_str0) ==
  LET type_str == Strip(type_str0)
  IN IF Find(type_str, 1, HasARRAY) # 0
     THEN IF ArrayMatch(type_str).found
          THEN [tag |-> "array", dimension |-> ArrayMatch(type_str).dimension,
                name |-> <<ArrayMatch(type_str).base_type>>]
          ELSE [tag |-> "array", dimension |-> <<"lower=\"1\"", "upper=\"100\"">>,
                name |-> <<"INT">>]
     ELSE [tag |-> "simple", dimension |-> <<>>, name |-> type_str]

\* ------------------------------------------------------------------
\* generate_xml: the document, as the tree of the elements the template's
\* holes fill.

VariableXml(var) ==
  [name |-> var.name, type |-> type_to_xml_element(var.type_str),
   initialValue |-> var.init_val]

ParamXml(p) == [name |-> p[1], type |-> type_to_xml_element(p[2])]

ParamsXml(ps) == [k \in 1..Len(ps) |-> ParamXml(ps[k])]

\* One <data> block of _generate_methods_xml: a group is left out when empty.
MethodXml(m) ==
  [element |-> "Method", name |-> m.name, ObjectId |-> m.object_id,
   returnType |-> <<>>,
   inputVars |-> ParamsXml(m.input_vars),
   outputVars |-> ParamsXml(m.output_vars),
   localVars |-> ParamsXml(m.local_vars),
   Attributes |-> <<>>,
   body |-> escape_xhtml(m.body),
   accessorAddData |-> <<>>,
   addData |-> <<>>]

\* A slip: the blocks prepended instead of appended.
generate_methods_xml_Reversed(ms) ==
  [k \in 1..Len(ms) |-> MethodXml(ms[Len(ms) + 1 - k])]

generate_methods_xml(ms) == [k \in 1..Len(ms) |-> MethodXml(ms[k])]

\* One <data> block of _generate_properties_xml.  localVars, Attributes, body
\* and accessorAddData are those of the GetAccessor (Attributes is what its
\* interface holds); addData is the Property's own <addData />.
PropertyXml(p) ==
  [element |-> "Property", name |-> p.name, ObjectId |-> p.object_id,
   returnType |-> <<type_to_xml_element(p.type_str)>>,
   inputVars |-> <<>>,
   outputVars |-> <<>>,
   localVars |-> ParamsXml(p.local_vars),
   Attributes |-> IF p.attribute # None
                  THEN <<[Name |-> p.attribute[1], Value |-> p.attribute[2]]>>
                  ELSE <<>>,
   body |-> escape_xhtml(p.body),
   accessorAddData |-> <<>>,
   addData |-> <<>>]

generate_properties_xml(ps) == [k \in 1..Len(ps) |-> PropertyXml(ps[k])]

\* A slip: the properties' lines forgotten.
ProjStruct_MethodsOnly(ms, ps) ==
  [k \in 1..Len(ms) |-> [Name |-> ms[k].name, ObjectId |-> ms[k].object_id]]

\* proj_struct: the <Object Name= ObjectId= /> lines, methods then properties
ProjStruct(ms, ps) ==
  [k \in 1..Len(ms) |-> [Name |-> ms[k].name, ObjectId |-> ms[k].object_id]]
    \o [k \in 1..Len(ps) |-> [Name |-> ps[k].name, ObjectId |-> ps[k].object_id]]

Document(fb, cs, vs, ms, ps, project_obj_id) ==
  [name |-> fb,
   localVarsConstant |-> [k \in 1..Len(cs) |-> VariableXml(cs[k])],
   localVars |-> [k \in 1..Len(vs) |-> VariableXml(vs[k])],
   addData |-> generate_methods_xml(ms) \o generate_properties_xml(ps),
   ObjectId |-> project_obj_id,
   ProjectStructure |-> [Name |-> fb, ObjectId |-> project_obj_id,
                         Objects |-> ProjStruct(ms, ps)]]

\* ------------------------------------------------------------------
\* Source texts.  A text is described by [fb, const, hasVar, decls, members]
\* and Render gives its tokens.

\* The declaration lines a VAR block is built from; line 5 is an array
\* declaration wrapped over three lines.
DeclLines ==
  << <<"count", ":", "INT", ":=", "0", ";">>,
     <<"b", ":", "INT", ";">>,
     <<"offs", ":", "INT", ";">>,
     <<"a", ":", "ARRAY", "[", "1", "..", "10", "]", "OF", "REAL", ";">>,
     <<"c", ":", "ARRAY", NL, "[", "1", "..", "3", "]", NL, "OF", "INT", ";">> >>

ConstLine == <<"cArrSize", ":", "INT", ":=", "100", ";">>

RECURSIVE RenderDecls(_)
RenderDecls(decls) ==
  IF decls = <<>> THEN <<>>
  ELSE DeclLines[Head(decls)] \o <<NL>> \o RenderDecls(Tail(decls))

RenderVarBlock(kw, lines) == kw \o <<NL>> \o lines \o <<"END_VAR", NL>>

InputDecl == <<"x", ":", "INT", ";">>
OutputDecl == <<"y", ":", "INT", ";">>
LocalDecl == <<"z", ":", "REAL", ";">>

RECURSIVE RenderPragmas(_)
RenderPragmas(ps) ==
  IF ps = <<>> THEN <<>> ELSE <<Head(ps), NL>> \o RenderPragmas(Tail(ps))

RenderMember(m) ==
  IF m.kind = "METHOD"
  THEN <<"METHOD", "PUBLIC", m.name, NL>>
       \o (IF m.inp THEN RenderVarBlock(<<"VAR_INPUT">>, InputDecl \o <<NL>>) ELSE <<>>)
       \o (IF m.out THEN RenderVarBlock(<<"VAR_OUTPUT">>, OutputDecl \o <<NL>>) ELSE <<>>)
       \o (IF m.loc THEN RenderVarBlock(<<"VAR">>, LocalDecl \o <<NL>>) ELSE <<>>)
       \o (IF m.begin THEN <<"BEGIN", NL>> ELSE <<>>)
       \o m.body \o <<NL, "END_METHOD", NL>>
  ELSE <<"PROPERTY", "PUBLIC", m.name, ":", "INT", NL>>
       \o RenderPragmas(m.pragmas)
       \o <<"PROPERTY", "GET", NL>>
       \o (IF m.loc THEN RenderVarBlock(<<"VAR">>, LocalDecl \o <<NL>>) ELSE <<>>)
       \o (IF m.begin THEN <<"BEGIN", NL>> ELSE <<>>)
       \o m.body \o <<NL, "END_PROPERTY", NL>>

RECURSIVE RenderMembers(_)
RenderMembers(ms) ==
  IF ms = <<>> THEN <<>> ELSE RenderMember(Head(ms)) \o RenderMembers(Tail(ms))

Render(src) ==
  (IF src.fb # "" THEN <<"FUNCTION_BLOCK", src.fb, NL>> ELSE <<>>)
  \o (IF src.const THEN RenderVarBlock(<<"VAR", "CONSTANT">>, ConstLine \o <<NL>>)
      ELSE <<>>)
  \o (IF src.hasVar THEN RenderVarBlock(<<"VAR">>, RenderDecls(src.decls)) ELSE <<>>)
  \o RenderMembers(src.members)
  \o <<"END_FUNCTION_BLOCK", NL>>

\* The shapes a member takes: a method with or without its VAR_INPUT,
\* VAR_OUTPUT and VAR blocks and its BEGIN marker, a property with its pragma
\* lines, its VAR block and its BEGIN marker.
Shape(kind, inp, out, loc, begin, pragmas) ==
  [kind |-> kind, inp |-> inp, out |-> out, loc |-> loc, begin |-> begin,
   pragmas |-> pragmas]

MyAttr == "{attribute 'myAttr' := 'val'}"
OtherAttr == "{attribute 'other' := 'x'}"

MethodShapes ==
  {Shape("METHOD", FALSE, FALSE, FALSE, TRUE, <<>>),
   Shape("METHOD", TRUE, FALSE, FALSE, TRUE, <<>>),
   Shape("METHOD", FALSE, TRUE, FALSE, TRUE, <<>>),
   Shape("METHOD", FALSE, FALSE, TRUE, TRUE, <<>>),
   Shape("METHOD", TRUE, TRUE, TRUE, TRUE, <<>>),
   Shape("METHOD", TRUE, FALSE, TRUE, FALSE, <<>>)}

PropertyShapes ==
  {Shape("PROPERTY", FALSE, FALSE, FALSE, TRUE, <<>>),
   Shape("PROPERTY", FALSE, FALSE, FALSE, TRUE, <<MyAttr>>),
   Shape("PROPERTY", FALSE, FALSE, TRUE, TRUE, <<OtherAttr>>),
   Shape("PROPERTY", FALSE, FALSE, FALSE, TRUE, <<OtherAttr, MyAttr>>),
   Shape("PROPERTY", FALSE, FALSE, TRUE, FALSE, <<>>)}

MethodNames == <<"M1", "M2", "M3", "M4">>
PropertyNames == <<"P1", "P2", "P3", "P4">>

MethodBodyText == <<"y", ":=", "x", "<", "count", "&", "b", ";">>
PropertyBodyText == <<"P", ":=", "count", ">", "0", ";">>

Member(shape, name, body) ==
  [kind |-> shape.kind, inp |-> shape.inp, out |-> shape.out, loc |-> shape.loc,
   begin |-> shape.begin, pragmas |-> shape.pragmas, name |-> name, body |-> body]

\* The k-th member of a text has the k-th name of its kind.
NamedMembers(shapes) ==
  [k \in 1..Len(shapes) |->
     IF shapes[k].kind = "METHOD"
     THEN Member(shapes[k], MethodNames[k], MethodBodyText)
     ELSE Member(shapes[k], PropertyNames[k], PropertyBodyText)]

ShapeSeqs ==
  UNION {[1..k -> MethodShapes \cup PropertyShapes] : k \in 0..MaxMembers}

DeclSeqs == UNION {[1..k -> 1..Len(DeclLines)] : k \in 0..MaxDecls}

Source(fb, const, hasVar, decls, members) ==
  [fb |-> fb, const |-> const, hasVar |-> hasVar, decls |-> decls,
   members |-> members]

ResetMethod ==
  Member(Shape("METHOD", FALSE, FALSE, FALSE, TRUE, <<>>), "Reset",
         <<"count", ":=", "0", ";">>)

\* The Logger example.
LoggerSource == Source("Logger", TRUE, TRUE, <<1>>, <<ResetMethod>>)

\* A text without the FUNCTION_BLOCK line.
NoHeaderSource == Source("", FALSE, FALSE, <<>>, <<ResetMethod>>)

\* A property declared before a method.
MixedSource ==
  Source("F", FALSE, TRUE, <<2>>,
         NamedMembers(<<Shape("PROPERTY", FALSE, FALSE, FALSE, TRUE, <<MyAttr>>),
                        Shape("METHOD", TRUE, FALSE, TRUE, TRUE, <<>>)>>))

\* Members that share one name.
SameNameSource ==
  Source("F", FALSE, FALSE, <<>>,
         <<ResetMethod, ResetMethod,
           Member(Shape("PROPERTY", FALSE, FALSE, FALSE, TRUE, <<>>), "Reset",
                  PropertyBodyText)>>)

VarSources ==
  {Source("F", c, TRUE, d, <<ResetMethod>>) : c \in BOOLEAN, d \in DeclSeqs}

MemberSources ==
  {Source("F", FALSE, v, <<1>>, NamedMembers(ms)) : v \in BOOLEAN, ms \in ShapeSeqs}

SmallSources == {LoggerSource, NoHeaderSource, MixedSource, SameNameSource}

Sources == VarSources \cup MemberSources \cup SmallSources

\* ------------------------------------------------------------------
\* State

VARIABLES
  fb_name,      \* STConverter.fb_name
  constants,    \* STConverter.constants, in insertion order
  variables,    \* STConverter.variables, in insertion order
  methods,      \* STConverter.methods
  properties,   \* STConverter.properties
  uuid,         \* how many identifiers uuid_str has handed out
  output,       \* the file at the output path: [state, doc]
  raised,       \* the exception the last call raised, "" if none
  last,         \* the last call: [op, src], src the text it was given
  calls,        \* parse_st invocations so far
  writes        \* generate_xml invocations so far

model == <<fb_name, constants, variables, methods, properties>>
vars == <<fb_name, constants, variables, methods, properties, uuid, output,
          raised, last, calls, writes>>

\* STConverter.__init__, and the output path before any call: no file, or a
\* file of an earlier run.
Init ==
  /\ fb_name = "FB"
  /\ constants = <<>>
  /\ variables = <<>>
  /\ methods = <<>>
  /\ properties = <<>>
  /\ uuid = 0
  /\ output \in {[state |-> "absent", doc |-> <<>>], [state |-> "old", doc |-> <<>>]}
  /\ raised = ""
  /\ last = [op |-> "none", src |-> <<>>]
  /\ calls = 0
  /\ writes = 0

\* ------------------------------------------------------------------
\* Operations

\* parse_st(text), text the rendering of src
parse_st(src) ==
  LET text == Render(src)
      nm == Len(NewMethods(text, uuid))
      np == Len(NewProperties(text, uuid))
  IN /\ fb_name' = ParsedFbName(fb_name, text)
     /\ constants' = ParsedConstants(constants, text)
     /\ variables' = ParsedVariables(variables, text)
     /\ methods' = ParsedMethods(methods, text, uuid)
     /\ properties' = ParsedProperties(properties, text, uuid + nm)
     /\ uuid' = uuid + nm + np
     /\ raised' = ""
     /\ last' = [op |-> "parse_st", src |-> <<src>>]
     /\ calls' = calls + 1
     /\ UNCHANGED <<output, writes>>

\* output_path.write_text(xml): the file is opened for writing, which
\* truncates it, the text is written and the file closed.  The open can fail
\* (the file is as it was), and a write can fail after the open (the file
\* holds a part of the text).
WriteOutcomes == {"ok", "open fails", "write fails"}

write_text(out, doc, outcome) ==
  IF outcome = "ok" THEN [state |-> "complete", doc |-> <<doc>>]
  ELSE IF outcome = "open fails" THEN out
  ELSE [state |-> "partial", doc |-> <<doc>>]

\* generate_xml(output_path)
generate_xml(outcome) ==
  /\ uuid' = uuid + 1
  /\ output' = write_text(output,
                 Document(fb_name, constants, variables, methods, properties,
                          uuid + 1), outcome)
  /\ raised' = IF outcome = "ok" THEN "" ELSE "OSError"
  /\ last' = [op |-> "generate_xml", src |-> last.src]
  /\ writes' = writes + 1
  /\ UNCHANGED <<model, calls>>

\* convert(input_st, output_xml): file is <<>> when no file is at the input
\* path and <<src>> when the file there holds the text of src.
convert(file, outcome) ==
  IF file = <<>>
  THEN /\ raised' = "FileNotFoundError"
       /\ last' = [op |-> "convert", src |-> <<>>]
       /\ UNCHANGED <<model, uuid, output, calls, writes>>
  ELSE LET text == Render(file[1])
           nm == Len(NewMethods(text, uuid))
           np == Len(NewProperties(text, uuid))
           fb == ParsedFbName(fb_name, text)
           cs == ParsedConstants(constants, text)
           vs == ParsedVariables(variables, text)
           ms == ParsedMethods(methods, text, uuid)
           ps == ParsedProperties(properties, text, uuid + nm)
           id == uuid + nm + np + 1
       IN /\ fb_name' = fb
          /\ constants' = cs
          /\ variables' = vs
          /\ methods' = ms
          /\ properties' = ps
          /\ uuid' = id
          /\ output' = write_text(output, Document(fb, cs, vs, ms, ps, id), outcome)
          /\ raised' = IF outcome = "ok" THEN "" ELSE "OSError"
          /\ last' = [op |-> "convert", src |-> file]
          /\ calls' = calls + 1
          /\ writes' = writes + 1

InputFiles == {<<>>} \cup {<<src>> : src \in SmallSources}

\* One conversion per converter, as main() runs it.
Next ==
  \/ \E src \in Sources : calls = 0 /\ parse_st(src)
  \/ \E outcome \in WriteOutcomes : writes = 0 /\ generate_xml(outcome)
  \/ \E file \in InputFiles, outcome \in WriteOutcomes :
       calls = 0 /\ writes = 0 /\ convert(file, outcome)

Spec == Init /\ [][Next]_vars

\* A converter used again, up to MaxCalls times.
NextReuse ==
  \/ \E src \in SmallSources : calls < MaxCalls /\ parse_st(src)
  \/ \E outcome \in WriteOutcomes : writes < MaxCalls /\ generate_xml(outcome)
  \/ \E file \in InputFiles, outcome \in WriteOutcomes :
       calls < MaxCalls /\ writes < MaxCalls /\ convert(file, outcome)

SpecReuse == Init /\ [][NextReuse]_vars

\* Bodies over the atoms the escape is about, each the body of one method or
\* of one property of a text.
EscapeAtoms == {"&", "<", ">", "amp", "lt", "gt", ";"}

Bodies == UNION {[1..k -> EscapeAtoms] : k \in 0..MaxBody}

EscapeSources ==
  {Source("F", FALSE, FALSE, <<>>, <<Member(shape, "M1", body)>>) :
     shape \in {Shape("METHOD", FALSE, FALSE, FALSE, TRUE, <<>>),
                Shape("PROPERTY", FALSE, FALSE, FALSE, TRUE, <<>>)},
     body \in Bodies}

NextEscape ==
  \/ \E src \in EscapeSources : calls = 0 /\ parse_st(src)
  \/ \E outcome \in WriteOutcomes : writes = 0 /\ generate_xml(outcome)

SpecEscape == Init /\ [][NextEscape]_vars

\* ------------------------------------------------------------------
\* Properties

\* The output file holds a complete document that one parse_st of the text
\* last.src[1], on a new converter, was serialized to.
Generated ==
  /\ last.op \in {"generate_xml", "convert"}
  /\ last.src # <<>>
  /\ calls = 1
  /\ output.state = "complete"

Doc == output.doc[1]

SourceMembers(kind) ==
  SelectSeq(last.src[1].members, LAMBDA m : m.kind = kind)

DocElements(element) ==
  SelectSeq(Doc.addData, LAMBDA d : d.element = element)

\* Decoding by the XML entity rules: &amp; -> &, &lt; -> <, &gt; -> >.
RECURSIVE Decode(_)
Decode(s) ==
  IF s = <<>> THEN <<>>
  ELSE IF Len(s) >= 3 /\ s[1] = "&" /\ s[3] = ";" /\ s[2] \in {"amp", "lt", "gt"}
  THEN <<CASE s[2] = "amp" -> "&" [] s[2] = "lt" -> "<" [] OTHER -> ">">>
       \o Decode(Sub(s, 4, Len(s)))
  ELSE <<s[1]>> \o Decode(Tail(s))

\* C1: in every complete document, each (Name, ObjectId) entry of the
\* ProjectStructure summary matches exactly one Method or Property
\* declaration of the pou's addData, and each declaration is listed exactly
\* once in the summary with its ObjectId.
C1_CrossReference ==
  output.state = "complete" =>
    LET decls == Doc.addData
        objs == Doc.ProjectStructure.Objects
    IN /\ \A i \in DOMAIN objs :
            Cardinality({j \in DOMAIN decls :
                           /\ decls[j].name = objs[i].Name
                           /\ decls[j].ObjectId = objs[i].ObjectId}) = 1
       /\ \A j \in DOMAIN decls :
            Cardinality({i \in DOMAIN objs :
                           /\ objs[i].Name = decls[j].name
                           /\ objs[i].ObjectId = decls[j].ObjectId}) = 1

\* A complete document with a Method and a Property of one name.
C1_Witness ==
  /\ output.state = "complete"
  /\ \E i, j \in DOMAIN Doc.addData :
       /\ Doc.addData[i].name = Doc.addData[j].name
       /\ Doc.addData[i].element = "Method"
       /\ Doc.addData[j].element = "Property"

\* C2: the body text a document holds for a method or a property, decoded by
\* the XML entity rules, is the body text of the source, whatever &, <, >
\* and literal &amp; &lt; &gt; it holds.
C2_RoundTrip ==
  Generated =>
    /\ Len(Doc.addData) = Len(last.src[1].members)
    /\ \A k \in DOMAIN Doc.addData :
         Decode(Doc.addData[k].body) = last.src[1].members[k].body

\* The document of a body that is the literal text &lt; or &amp;, written
\* escaped.
C2_Witness ==
  /\ Generated
  /\ last.src[1].members[1].body \in {<<"&", "lt", ";">>, <<"&", "amp", ";">>}
  /\ Doc.addData[1].body # last.src[1].members[1].body

\* C3: parse_st of the Logger example on a new converter gives fb_name
\* Logger, the one constant cArrSize : INT with initial value 100, the one
\* variable count : INT with initial value 0 (no semicolon in either), and the
\* one method Reset with body 'count := 0;'.
C3_LoggerExample ==
  (last.op = "parse_st" /\ calls = 1 /\ last.src = <<LoggerSource>>) =>
    /\ fb_name = "Logger"
    /\ Len(constants) = 1
    /\ constants[1].name = "cArrSize"
    /\ constants[1].type_str = <<"INT">>
    /\ constants[1].init_val = <<"100">>
    /\ Len(variables) = 1
    /\ variables[1].name = "count"
    /\ variables[1].type_str = <<"INT">>
    /\ variables[1].init_val = <<"0">>
    /\ Len(methods) = 1
    /\ methods[1].name = "Reset"
    /\ methods[1].body = <<"count", ":=", "0", ";">>
    /\ properties = <<>>

\* C4: a variable declared ARRAY [1..10] OF REAL is written as an array
\* element whose dimension carries lower="1" upper="10" and whose base type
\* is REAL.
C4_ArraySerialized ==
  (Generated /\ last.src[1].hasVar /\ last.src[1].decls = <<4>>) =>
    /\ Len(Doc.localVars) = 1
    /\ Doc.localVars[1].name = "a"
    /\ Doc.localVars[1].type =
         [tag |-> "array", dimension |-> <<"lower=\"1\"", "upper=\"10\"">>,
          name |-> <<"REAL">>]

ElementOf(kind) == IF kind = "METHOD" THEN "Method" ELSE "Property"

DeclOrder(ds) == [k \in 1..Len(ds) |-> <<ds[k].element, ds[k].name>>]

MemberOrder(ms) == [k \in 1..Len(ms) |-> <<ElementOf(ms[k].kind), ms[k].name>>]

SummaryFollowsDecls ==
  Doc.ProjectStructure.Objects =
    [k \in 1..Len(Doc.addData) |->
       [Name |-> Doc.addData[k].name, ObjectId |-> Doc.addData[k].ObjectId]]

\* C5, as claimed: the declarations of the document are in the order the
\* methods and properties have in the source text, interleaved ones
\* included, and the summary lists them in the order of the declarations.
C5_SourceOrder ==
  Generated =>
    /\ DeclOrder(Doc.addData) = MemberOrder(last.src[1].members)
    /\ SummaryFollowsDecls

\* C5, amended: the document holds the Method declarations in their source
\* order, then the Property declarations in their source order, and the
\* summary lists them in the order of the declarations.
C5_MethodsThenProperties ==
  Generated =>
    /\ DeclOrder(Doc.addData) =
         MemberOrder(SourceMembers("METHOD")) \o MemberOrder(SourceMembers("PROPERTY"))
    /\ SummaryFollowsDecls

\* A document of a text that declares a property before a method.
C5_Witness ==
  /\ Generated
  /\ Len(last.src[1].members) >= 2
  /\ last.src[1].members[1].kind = "PROPERTY"
  /\ last.src[1].members[2].kind = "METHOD"
  /\ Len(Doc.addData) = 2

WithoutIds(ms) == [k \in 1..Len(ms) |-> [ms[k] EXCEPT !.object_id = 0]]

\* C6: after parse_st of a text the model is the one a new converter gets
\* from that text, object identifiers aside, whatever was called before.
C6_NoCarryOver ==
  last.op = "parse_st" =>
    LET text == Render(last.src[1])
    IN /\ fb_name = ParsedFbName("FB", text)
       /\ constants = ParsedConstants(<<>>, text)
       /\ variables = ParsedVariables(<<>>, text)
       /\ WithoutIds(methods) = WithoutIds(NewMethods(text, 0))
       /\ WithoutIds(properties) = WithoutIds(NewProperties(text, 0))

\* C7: a convert that finds no input file leaves the model and the output
\* file as they were, and a convert that fails leaves the output file as it
\* was or holding the complete document.
C7_ConvertFailure ==
  [][/\ (last'.op = "convert" /\ raised' = "FileNotFoundError")
          => UNCHANGED <<model, output>>
     /\ (last'.op = "convert" /\ raised' # "")
          => (output' = output \/ output'.state = "complete")]_vars

ExpectedAttributes(pragmas) ==
  IF pragmas = <<MyAttr>> THEN <<[Name |-> "myAttr", Value |-> "val"]>>
  ELSE IF pragmas = <<OtherAttr>> THEN <<[Name |-> "other", Value |-> "x"]>>
  ELSE <<>>

C9_IndependentBlocks ==
  (last.op = "parse_st" /\ calls = 1) =>
    LET ms == SourceMembers("METHOD")
    IN /\ Len(methods) = Len(ms)
       /\ \A k \in DOMAIN ms :
            /\ methods[k].input_vars =
                 (IF ms[k].inp THEN << <<"x", <<"INT">>>> >> ELSE <<>>)
            /\ methods[k].output_vars =
                 (IF ms[k].out THEN << <<"y", <<"INT">>>> >> ELSE <<>>)
            /\ methods[k].local_vars =
                 (IF ms[k].loc THEN << <<"z", <<"REAL">>>> >> ELSE <<>>)

OneLineArrayType == <<"ARRAY", "[", "1", "..", "10", "]", "OF", "REAL">>

\* C10: in a VAR block every declaration line has its own entry in the
\* mapping, also behind an array declaration, and the type expression of an
\* array declared on one line is that line's type text.
C10_ArrayLines ==
  (/\ last.op = "parse_st"
   /\ calls = 1
   /\ last.src[1].hasVar
   /\ last.src[1].fb # ""
   /\ SourceMembers("METHOD") # <<>>) =>
    LET decls == last.src[1].decls
    IN /\ \A k \in DOMAIN decls :
            \E i \in DOMAIN variables : variables[i].name = DeclLines[decls[k]][1]
       /\ \A i \in DOMAIN variables :
            variables[i].name = "a" =>
              variables[i].type_str \in {OneLineArrayType, OneLineArrayType \o <<";">>}

ArrayFree(decls) == \A k \in DOMAIN decls : decls[k] \in {1, 2, 3}

\* C11: after parse_st of a text whose function block has a plain VAR block
\* at function-block level, the variables mapping holds the declarations of
\* that block, also when the text declares no method; and no declaration of
\* the constant block or of a block of a method or property is in it.
C11_MemberVariables ==
  (/\ last.op = "parse_st"
   /\ calls = 1
   /\ last.src[1].fb # ""
   /\ ArrayFree(last.src[1].decls)) =>
    {variables[i].name : i \in DOMAIN variables} =
      (IF last.src[1].hasVar
       THEN {DeclLines[last.src[1].decls[k]][1] : k \in DOMAIN last.src[1].decls}
       ELSE {})

====
